---- MODULE Spec2Model ----
(***************************************************************************)
(* pytest-cov: the CovPlugin lifecycle shim of src/pytest_cov.py.          *)
(*                                                                         *)
(* One process of a test session is modelled: the host (pytest) delivers   *)
(* the hooks in its fixed order                                            *)
(*   load_initial_conftests, configure, sessionstart,                      *)
(*   { configure_node, testnodedown, runtest_setup, runtest_teardown,      *)
(*     the cov funcarg }*, sessionfinish, terminal_summary                 *)
(* and the plugin reacts as the source does.  The controllers of cov_core  *)
(* (Central, DistMaster, DistSlave) are a separate library; their contract *)
(* is taken from sections 4.2-4.5 of the specification.                    *)
(*                                                                         *)
(* Conventions.  A Python value that may be None is a sequence of length   *)
(* at most one: << >> is None, <<v>> is v.  An engine handle is an index   *)
(* into engines, 0 is None.  Percentages are integers in thousandths of a  *)
(* percent; %.2f output is an integer in hundredths of a percent.          *)
(***************************************************************************)
EXTENDS Integers, Sequences, FiniteSets

\* ------------------------------------------------------------------ bounds
\* number of workers a distributing master talks to
NumWorkers == 2
\* number of test items the host runs in one process
MaxTests == 2

\* ------------------------------------------------------------ input domains
Workers == 1..NumWorkers

\* the session's own process id and the id of a forked child
SessionPid == 1
ChildPid == 2
Pids == {SessionPid, ChildPid}

\* percentages summary() may return, in thousandths of a percent (no value
\* lies on a %.2f rounding tie)
PctSamples == {0, 42000, 49999, 50000, 100000}

\* --cov-min: no default, type int (<< >> when the option is not given)
CovMinValues == {<< >>, <<50>>, <<100>>}

\* The options namespace.  xdist tells whether the attributes numprocesses,
\* distload and dist exist at all (they are added by another plugin).
OptionValues ==
    [cov_source : {<< >>, <<"pkg">>},
     cov_report : {<< >>},
     cov_config : {".coveragerc"},
     no_cov_on_fail : BOOLEAN,
     cov_min : CovMinValues,
     xdist : {TRUE},
     numprocesses : {0, 2},
     distload : BOOLEAN,
     dist : {"no", "load"}]
    \cup
    [cov_source : {<< >>, <<"pkg">>},
     cov_report : {<< >>},
     cov_config : {".coveragerc"},
     no_cov_on_fail : BOOLEAN,
     cov_min : CovMinValues,
     xdist : {FALSE},
     numprocesses : {0},
     distload : {FALSE},
     dist : {"no"}]

\* session.config.slaveinput: absent, or a dict (a set of <<key, value>>)
SlaveInputValues == {<< >>, <<{}>>, <<{<<"slaveid", "gw0">>}>>}

\* getattr(session, 'nodeid')
SessionNodeid == "session"

VARIABLES
    phase,          \* position of the host in its hook protocol
    options,        \* the parsed options (CovPlugin.options once constructed)
    early,          \* the plugin module is loaded before the initial conftests
    slaveinput,     \* session.config.slaveinput
    py,             \* major version of the interpreter, 2 or 3
    registered,     \* pluginmanager.hasplugin('_cov')
    plugins,        \* number of CovPlugin objects registered so far
    ctor_start,     \* the start argument the plugin was constructed with
    pid,            \* CovPlugin.pid (0 is None)
    cov,            \* CovPlugin.cov (0 is None)
    cov_controller, \* CovPlugin.cov_controller
    failed,         \* CovPlugin.failed
    engines,        \* every coverage engine created so far
    calls,          \* controller operations invoked by the plugin, in order
    reports,        \* CoverageReports produced so far
    raised,         \* what the most recent hook raised
    internalerror,  \* a hook raised during the run
    exitstatus,     \* the exit status given to pytest_sessionfinish
    nodes,          \* what really happened to each worker
    arrivals,       \* the testnodedown notifications, in order of delivery
    testpid,        \* pid the running test item executes in (0: none running)
    tests,          \* test items begun
    lastCov         \* result of the latest call of the cov funcarg

vars == <<phase, options, early, slaveinput, py, registered, plugins,
          ctor_start, pid, cov, cov_controller, failed, engines, calls,
          reports, raised, internalerror, exitstatus, nodes, arrivals,
          testpid, tests, lastCov>>

hostVars == <<options, early, slaveinput, py>>
pluginVars == <<pid, cov, cov_controller, failed, engines, calls, reports>>

\* ----------------------------------------------------------------- values
\* pid = None
NonePid == 0
\* cov = None, controller.cov = None
NoneCov == 0

\* cov_controller = None
NoController ==
    [cls |-> "None", nodeid |-> << >>, state |-> "UNSTARTED", cov |-> NoneCov,
     configured |-> {}, data_files |-> {}, failed_nodes |-> {}]

NoException == [type |-> "none", min |-> -1, total |-> -1]
Exception(t) == [type |-> t, min |-> -1, total |-> -1]

\* lastCov before the funcarg was ever evaluated (afterwards <<handle>>)
NotCalled == << >>

\* dict.get(key, default) on a dict given as a set of <<key, value>>
DictGet(d, key, default) ==
    IF \E kv \in d : kv[1] = key
    THEN (CHOOSE kv \in d : kv[1] = key)[2]
    ELSE default

\* slip: load distribution (distload) is not looked at
is_dist_without_distload(opts) ==
    \/ (IF opts.xdist THEN opts.numprocesses # 0 ELSE FALSE)
    \/ (IF opts.xdist THEN opts.dist ELSE "no") # "no"

\* getattr(options, 'numprocesses', False) or getattr(options, 'distload',
\* False) or getattr(options, 'dist', 'no') != 'no'
is_dist(opts) ==
    \/ (IF opts.xdist THEN opts.numprocesses # 0 ELSE FALSE)
    \/ (IF opts.xdist THEN opts.distload ELSE FALSE)
    \/ (IF opts.xdist THEN opts.dist ELSE "no") # "no"

\* slip: the marker is looked up on the wrong object and never found
is_slave_never == FALSE

\* hasattr(session.config, 'slaveinput')
is_slave == slaveinput # << >>

\* the host runs a distributed session in this process: it is the one that
\* sends configure_node and testnodedown, and it runs no test item itself
DistSession == is_dist(options) /\ ~is_slave

\* ------------------------------------------- cov_core (sections 4.2 - 4.5)
\* The engine a controller's start() constructs.  Central and DistSlave
\* begin measuring; DistMaster performs no local measurement.
ControllerEngine(cls) ==
    [owner |-> cls,
     state |-> IF cls = "DistMaster" THEN "idle" ELSE "measuring",
     finishes |-> 0]

\* controller_cls(...) followed by start(): UNSTARTED -> STARTED, the engine
\* is engs[h] with h the next free handle
StartedController(cls, nodeid, engs) ==
    [cls |-> cls, nodeid |-> nodeid, state |-> "STARTED",
     cov |-> Len(engs) + 1,
     configured |-> {}, data_files |-> {}, failed_nodes |-> {}]

\* controller.finish(): stop and save, STARTED -> STOPPED
FinishedController(c) == [c EXCEPT !.state = "STOPPED"]

FinishedEngines(c, engs) ==
    [engs EXCEPT ![c.cov] = [@ EXCEPT !.state = "stopped"]]

\* DistMaster.configure_node(node): the worker gets the session's config
ConfiguredNode(c, node) == [c EXCEPT !.configured = @ \cup {node}]

\* DistMaster.testnodedown(node, error): the worker's data file is kept when
\* it reported one, a worker that reported an error contributes nothing
NodeDown(c, node, error) ==
    IF error = << >>
    THEN [c EXCEPT !.data_files = @ \cup {node}]
    ELSE [c EXCEPT !.failed_nodes = @ \cup {node}]

\* Does summary() of this controller report?  Only the final controller of a
\* topology does; a worker never reports.
Reports(c) == c.cls \in {"Central", "DistMaster"}

\* controller.summary(stream): combine the reported data files and report;
\* p is the percentage the engine computes.  Returns the percentage, or
\* None from a controller that does not report.
SummaryReport(c, p) ==
    [by |-> c.cls, combined |-> c.data_files, total |-> p]

SummaryTotal(c, p) == IF Reports(c) THEN <<p>> ELSE << >>

SummarizedController(c) ==
    IF Reports(c) THEN [c EXCEPT !.state = "REPORTED"] ELSE c

\* cov_core_init.init(): a fresh engine, measuring
ManualEngine == [owner |-> "manual", state |-> "measuring", finishes |-> 0]

\* cov_core.multiprocessing_finish(cov): stop and merge
MultiprocessingFinish(engs, h) ==
    [engs EXCEPT ![h] = [@ EXCEPT !.state = "stopped",
                                 !.finishes = @ + 1]]

\* ------------------------------------------------------------ Python values
\* slip: a <= b
PyLessOrEqual(a, b, version) ==
    IF a # << >> /\ b # << >> THEN
        IF a[1] <= b[1] * 1000 THEN "True" ELSE "False"
    ELSE IF version = 3 THEN "TypeError"
    ELSE IF a = << >> /\ b # << >> THEN "True"
    ELSE "False"

\* slip: None ordered above every number instead of below
PyLessNoneHigh(a, b, version) ==
    IF a # << >> /\ b # << >> THEN
        IF a[1] < b[1] * 1000 THEN "True" ELSE "False"
    ELSE IF version = 3 THEN "TypeError"
    ELSE IF a # << >> /\ b = << >> THEN "True"
    ELSE "False"

\* truth value of a < b where either side may be None: Python 2 orders None
\* below every number, Python 3 raises TypeError.  a is in thousandths of a
\* percent, b in percent.
PyLess(a, b, version) ==
    IF a # << >> /\ b # << >> THEN
        IF a[1] < b[1] * 1000 THEN "True" ELSE "False"
    ELSE IF version = 3 THEN "TypeError"
    ELSE IF a = << >> /\ b # << >> THEN "True"
    ELSE "False"

\* '%d' % n for an int n (cov_min has type int): n is printed exactly
FormatD(n) == n

\* '%.2f' % x: x (thousandths) rounded to the nearest hundredth
Format2f(x) == (x + 5) \div 10

\* ------------------------------------------------------------------- Init
Init ==
    /\ phase = "boot"
    /\ options \in OptionValues
    /\ early \in BOOLEAN
    /\ slaveinput \in SlaveInputValues
    /\ py \in {2, 3}
    /\ registered = FALSE
    /\ plugins = 0
    /\ ctor_start = FALSE
    /\ pid = NonePid
    /\ cov = NoneCov
    /\ cov_controller = NoController
    /\ failed = FALSE
    /\ engines = << >>
    /\ calls = << >>
    /\ reports = << >>
    /\ raised = NoException
    /\ internalerror = FALSE
    /\ exitstatus = << >>
    /\ nodes = [w \in Workers |-> "new"]
    /\ arrivals = << >>
    /\ testpid = 0
    /\ tests = 0
    /\ lastCov = NotCalled

\* ------------------------------------------------------------- CovPlugin
\* CovPlugin.start(controller_cls, config, nodeid)
start(cls, nodeid) ==
    /\ cov_controller' = StartedController(cls, nodeid, engines)
    /\ engines' = Append(engines, ControllerEngine(cls))
    /\ calls' = Append(calls, <<"start", cls>>)

\* CovPlugin.__init__(options, pluginmanager, start)
CovPlugin(startArg) ==
    /\ pid' = NonePid
    /\ cov' = NoneCov
    /\ failed' = FALSE
    /\ ctor_start' = startArg
    /\ IF is_dist(options) /\ startArg THEN start("DistMaster", << >>)
       ELSE IF startArg THEN start("Central", << >>)
       ELSE /\ cov_controller' = NoController
            /\ UNCHANGED <<engines, calls>>

\* pytest_load_initial_conftests, delivered to a plugin module that is
\* already loaded when the initial conftests are
pytest_load_initial_conftests ==
    /\ phase = "boot"
    /\ phase' = "configure"
    /\ IF early /\ options.cov_source # << >>
       THEN /\ CovPlugin(TRUE)
            /\ registered' = TRUE
            /\ plugins' = plugins + 1
       ELSE UNCHANGED <<registered, plugins, ctor_start, pid, cov,
                        cov_controller,
                        failed, engines, calls>>
    /\ UNCHANGED <<hostVars, reports, raised, internalerror, exitstatus,
                   nodes, arrivals, testpid, tests, lastCov>>

\* slip: the plugin registered early is not looked for
hasplugin_never == FALSE

\* config.pluginmanager.hasplugin('_cov')
hasplugin_cov == registered

\* pytest_configure
pytest_configure ==
    /\ phase = "configure"
    /\ phase' = "sessionstart"
    /\ IF options.cov_source # << >> /\ ~hasplugin_cov
       THEN /\ CovPlugin(FALSE)
            /\ registered' = TRUE
            /\ plugins' = plugins + 1
       ELSE UNCHANGED <<registered, plugins, ctor_start, pid, cov,
                        cov_controller,
                        failed, engines, calls>>
    /\ UNCHANGED <<hostVars, reports, raised, internalerror, exitstatus,
                   nodes, arrivals, testpid, tests, lastCov>>

\* slip: the worker id of slaveinput is ignored
SessionNodeidOnly == SessionNodeid

\* session.config.slaveinput.get('slaveid', getattr(session, 'nodeid'))
SlaveNodeid == DictGet(slaveinput[1], "slaveid", SessionNodeid)

\* CovPlugin.pytest_sessionstart
pytest_sessionstart ==
    /\ phase = "sessionstart"
    /\ phase' = "run"
    /\ IF registered
       THEN /\ pid' = SessionPid
            /\ IF is_slave
               THEN start("DistSlave", <<SlaveNodeid>>)
               ELSE UNCHANGED <<cov_controller, engines, calls>>
       ELSE UNCHANGED <<pid, cov_controller, engines, calls>>
    /\ UNCHANGED <<hostVars, registered, plugins, ctor_start, cov, failed,
                   reports,
                   raised, internalerror, exitstatus, nodes, arrivals,
                   testpid, tests,
                   lastCov>>

\* CovPlugin.pytest_configure_node, sent by a distributing host for a worker
\* it has just set up
pytest_configure_node(node) ==
    /\ phase = "run"
    /\ DistSession
    /\ ~internalerror
    /\ nodes[node] = "new"
    /\ nodes' = [nodes EXCEPT ![node] = "configured"]
    /\ UNCHANGED arrivals
    /\ IF ~registered
       THEN UNCHANGED <<cov_controller, raised, internalerror>>
       ELSE IF cov_controller = NoController
       THEN \* None has no attribute configure_node
            /\ raised' = Exception("AttributeError")
            /\ internalerror' = TRUE
            /\ UNCHANGED cov_controller
       ELSE /\ cov_controller' = ConfiguredNode(cov_controller, node)
            /\ raised' = NoException
            /\ UNCHANGED internalerror
    /\ UNCHANGED <<phase, hostVars, registered, plugins, ctor_start, pid,
                   cov, failed,
                   engines, calls, reports, exitstatus, testpid, tests,
                   lastCov>>

\* slip: the data files collected so far are dropped at each notification
DelegateTestnodedownLatestOnly(node, error) ==
    NodeDown([cov_controller EXCEPT !.data_files = {}], node, error)

\* slip: the error is not handed on
DelegateTestnodedownNoError(node, error) ==
    NodeDown(cov_controller, node, << >>)

\* self.cov_controller.testnodedown(node, error)
DelegateTestnodedown(node, error) == NodeDown(cov_controller, node, error)

\* CovPlugin.pytest_testnodedown, sent when a configured worker went down,
\* with error = None or the error it went down with
pytest_testnodedown(node, error) ==
    /\ phase = "run"
    /\ DistSession
    /\ ~internalerror
    /\ nodes[node] = "configured"
    /\ nodes' = [nodes EXCEPT ![node] =
                    IF error = << >> THEN "reported" ELSE "errored"]
    /\ arrivals' = Append(arrivals, <<node, error>>)
    /\ IF ~registered
       THEN UNCHANGED <<cov_controller, raised, internalerror>>
       ELSE IF cov_controller = NoController
       THEN \* None has no attribute testnodedown
            /\ raised' = Exception("AttributeError")
            /\ internalerror' = TRUE
            /\ UNCHANGED cov_controller
       ELSE /\ cov_controller' = DelegateTestnodedown(node, error)
            /\ raised' = NoException
            /\ UNCHANGED internalerror
    /\ UNCHANGED <<phase, hostVars, registered, plugins, ctor_start, pid,
                   cov, failed,
                   engines, calls, reports, exitstatus, testpid, tests,
                   lastCov>>

\* slip: the pid is compared with a pid that was never captured (None)
InOtherProcessThanNone(p) == p # NonePid

\* slip: os.getpid() == self.pid
InSameProcess(p) == p = pid

\* os.getpid() != self.pid
InOtherProcess(p) == p # pid

\* CovPlugin.pytest_runtest_setup; p is os.getpid() in the process the test
\* item runs in
pytest_runtest_setup(p) ==
    /\ phase = "run"
    /\ ~DistSession
    /\ testpid = 0
    /\ tests < MaxTests
    /\ testpid' = p
    /\ tests' = tests + 1
    /\ IF registered /\ InOtherProcess(p)
       THEN /\ cov' = Len(engines) + 1
            /\ engines' = Append(engines, ManualEngine)
       ELSE UNCHANGED <<cov, engines>>
    /\ UNCHANGED <<phase, hostVars, registered, plugins, ctor_start, pid,
                   cov_controller, failed, calls, reports, raised,
                   internalerror, exitstatus, nodes, arrivals, lastCov>>

\* CovPlugin.pytest_runtest_teardown
pytest_runtest_teardown ==
    /\ phase = "run"
    /\ testpid # 0
    /\ testpid' = 0
    /\ IF registered /\ cov # NoneCov
       THEN /\ engines' = MultiprocessingFinish(engines, cov)
            /\ cov' = NoneCov
       ELSE UNCHANGED <<cov, engines>>
    /\ UNCHANGED <<phase, hostVars, registered, plugins, ctor_start, pid,
                   cov_controller, failed, calls, reports, raised,
                   internalerror, exitstatus, nodes, arrivals, tests, lastCov>>

\* slip: the plugin's manual handle is returned instead of the controller's
funcarg_plugin_cov ==
    IF registered
    THEN IF cov_controller # NoController THEN <<cov>> ELSE <<NoneCov>>
    ELSE <<NoneCov>>

\* pytest_funcarg__cov(request), evaluated for a running test item
funcarg_cov ==
    IF registered
    THEN IF cov_controller # NoController
         THEN <<cov_controller.cov>>
         ELSE <<NoneCov>>
    ELSE <<NoneCov>>

pytest_funcarg__cov ==
    /\ phase = "run"
    /\ testpid # 0
    /\ lastCov' = funcarg_cov
    /\ UNCHANGED <<phase, hostVars, registered, plugins, ctor_start,
                   pluginVars,
                   raised, internalerror, exitstatus, nodes, arrivals,
                   testpid, tests>>

\* exit statuses the host can end a session with: 0 all passed, 1 tests
\* failed, 3 internal error (a hook raised)
ExitStatuses == IF internalerror THEN {3} ELSE {0, 1}

\* slip: exitstatus == 0
RunPassed(status) == status = 0

\* exitstatus != 0
RunFailed(status) == status # 0

\* CovPlugin.pytest_sessionfinish
pytest_sessionfinish(status) ==
    /\ phase = "run"
    /\ testpid = 0
    /\ phase' = "summary"
    /\ exitstatus' = <<status>>
    /\ IF registered
       THEN /\ failed' = RunFailed(status)
            /\ IF cov_controller # NoController
               THEN /\ cov_controller' = FinishedController(cov_controller)
                    /\ engines' = FinishedEngines(cov_controller, engines)
                    /\ calls' = Append(calls, <<"finish", cov_controller.cls>>)
               ELSE UNCHANGED <<cov_controller, engines, calls>>
       ELSE UNCHANGED <<failed, cov_controller, engines, calls>>
    /\ raised' = NoException
    /\ UNCHANGED <<hostVars, registered, plugins, ctor_start, pid, cov,
                   reports, internalerror, nodes, arrivals, testpid, tests,
                   lastCov>>

\* slip: a master reports only once a worker has delivered a data file
suppressed_without_data ==
    \/ failed /\ options.no_cov_on_fail
    \/ cov_controller.cls = "DistMaster" /\ cov_controller.data_files = {}

\* slip: the report is suppressed on every failed run
suppressed_on_failure == failed

\* the reporting gate of pytest_terminal_summary
suppressed == failed /\ options.no_cov_on_fail

\* slip: a total of None is taken for 0
ThresholdOutcomeNoneAsZero(total) ==
    LET t == IF total = << >> THEN <<0>> ELSE total
        less == PyLess(t, options.cov_min, py) IN
    IF less = "TypeError" THEN Exception("TypeError")
    ELSE IF less = "False" THEN NoException
    ELSE [type |-> "CoverageError",
          min |-> FormatD(options.cov_min[1]),
          total |-> Format2f(t[1])]

\* the threshold gate of pytest_terminal_summary: what the hook raises once
\* summary() has returned total
ThresholdOutcome(total) ==
    LET less == PyLess(total, options.cov_min, py) IN
    IF less = "TypeError" THEN Exception("TypeError")
    ELSE IF less = "False" THEN NoException
    ELSE IF total = << >> \/ options.cov_min = << >>
    THEN \* '%d' or '%.2f' applied to None
         Exception("TypeError")
    ELSE [type |-> "CoverageError",
          min |-> FormatD(options.cov_min[1]),
          total |-> Format2f(total[1])]

\* CovPlugin.pytest_terminal_summary; p is the percentage the engine
\* computes if summary() reports
pytest_terminal_summary(p) ==
    /\ phase = "summary"
    /\ phase' = "done"
    /\ IF ~registered \/ cov_controller = NoController \/ suppressed
       THEN /\ raised' = NoException
            /\ UNCHANGED <<cov_controller, calls, reports>>
       ELSE /\ calls' = Append(calls, <<"summary", cov_controller.cls>>)
            /\ reports' = IF Reports(cov_controller)
                          THEN Append(reports, SummaryReport(cov_controller, p))
                          ELSE reports
            /\ cov_controller' = SummarizedController(cov_controller)
            /\ raised' = ThresholdOutcome(SummaryTotal(cov_controller, p))
    /\ UNCHANGED <<hostVars, registered, plugins, ctor_start, pid, cov, failed,
                   engines, internalerror, exitstatus, nodes, arrivals,
                   testpid, tests,
                   lastCov>>

\* ------------------------------------------------------------------- Next
Next ==
    \/ pytest_load_initial_conftests
    \/ pytest_configure
    \/ pytest_sessionstart
    \/ \E node \in Workers : pytest_configure_node(node)
    \/ \E node \in Workers, error \in {<< >>, <<"crash">>} :
           pytest_testnodedown(node, error)
    \/ \E p \in Pids : pytest_runtest_setup(p)
    \/ pytest_runtest_teardown
    \/ pytest_funcarg__cov
    \/ \E status \in ExitStatuses : pytest_sessionfinish(status)
    \/ \E p \in PctSamples : pytest_terminal_summary(p)

Spec == Init /\ [][Next]_vars

\* ================================================================ claims
SummaryCalled == \E i \in 1..Len(calls) : calls[i][1] = "summary"

\* the run failed, as pytest_sessionfinish was told
FailedRun == exitstatus # << >> /\ exitstatus[1] # 0

\* the options indicate distribution, in the claim's words
Distributed ==
    /\ options.xdist
    /\ (options.numprocesses # 0 \/ options.distload \/ options.dist # "no")

\* C1: in a session whose pytest_sessionfinish received a non-zero exit
\* status with no_cov_on_fail set, summary() is never invoked, no report is
\* produced and no CoverageError is raised, whatever cov_min and topology.
C1_SuppressedOnFailure ==
    (FailedRun /\ options.no_cov_on_fail) =>
        /\ ~SummaryCalled
        /\ reports = << >>
        /\ raised.type # "CoverageError"

C1_Witness ==
    /\ phase = "done"
    /\ FailedRun
    /\ options.no_cov_on_fail
    /\ cov_controller.cls = "DistMaster"
    /\ options.cov_min = <<100>>

\* the percentage summary() returned to pytest_terminal_summary
ThresholdChecked ==
    /\ phase = "done"
    /\ Len(reports) = 1
    /\ options.cov_min # << >>

\* C2 as stated: with threshold T configured and percentage P returned, a
\* CoverageError is raised iff P < T, nothing is raised for P >= T, and the
\* error carries exactly T and P.
C2_Original ==
    ThresholdChecked =>
        LET T == options.cov_min[1]
            P == reports[1].total
        IN  /\ (raised.type = "CoverageError") <=> (P < T * 1000)
            /\ P >= T * 1000 => raised = NoException
            /\ raised.type = "CoverageError" =>
                   /\ raised.min = T
                   /\ raised.total * 10 = P

\* C2 amended: as C2, but the error's message carries T and P formatted with
\* two decimals, that is P rounded to the nearest hundredth of a percent.
C2_Amended ==
    ThresholdChecked =>
        LET T == options.cov_min[1]
            P == reports[1].total
        IN  /\ (raised.type = "CoverageError") <=> (P < T * 1000)
            /\ P >= T * 1000 => raised = NoException
            /\ raised.type = "CoverageError" =>
                   /\ raised.min = T
                   /\ raised.total * 10 - P \in -5..5

C2_Witness ==
    /\ ThresholdChecked
    /\ failed
    /\ raised.type = "CoverageError"
    /\ raised.total * 10 = reports[1].total

\* C3: at most one CoverageReport is ever produced, and exactly one once
\* the terminal summary has run in a process that started a controller,
\* is not a worker and whose report is not suppressed.
C3_ExactlyOneReport ==
    /\ Len(reports) <= 1
    /\ Len(reports) = 1 => phase = "done"
    /\ (/\ phase = "done"
        /\ registered
        /\ cov_controller # NoController
        /\ slaveinput = << >>
        /\ ~(FailedRun /\ options.no_cov_on_fail)) => Len(reports) = 1

C3_Witness ==
    /\ phase = "done"
    /\ Len(reports) = 1
    /\ FailedRun
    /\ reports[1].by = "Central"

\* the plugin is constructed and no session start has happened yet
Constructed == registered /\ phase \in {"configure", "sessionstart"}

\* C4 as stated: at construction a DistMaster is instantiated and started
\* iff the options indicate distribution, and a Central in every other case.
C4_Original ==
    Constructed =>
        /\ cov_controller.state = "STARTED"
        /\ cov_controller.cls = IF Distributed THEN "DistMaster" ELSE "Central"

\* C4 amended: a plugin constructed with start true instantiates and starts
\* a DistMaster iff the options indicate distribution and a Central
\* otherwise; constructed with start false it instantiates no controller.
\* The choice is made once: outside a worker it stays the controller.
C4_Amended ==
    /\ (Constructed \/ (registered /\ slaveinput = << >>)) =>
        IF ctor_start
        THEN cov_controller.cls =
                 IF Distributed THEN "DistMaster" ELSE "Central"
        ELSE cov_controller = NoController
    /\ (Constructed /\ ctor_start) =>
        /\ cov_controller.state = "STARTED"
        /\ cov_controller.cov = 1
        /\ Len(engines) = 1
        /\ calls = << <<"start", cov_controller.cls>> >>

C4_Witness ==
    /\ Constructed
    /\ cov_controller.cls = "DistMaster"
    /\ options.numprocesses = 0
    /\ options.dist = "no"

\* C5: at session start with slaveinput present the active controller
\* becomes a started DistSlave whose worker id is slaveinput's slaveid, or
\* the session's nodeid without one, whatever was chosen at construction;
\* with slaveinput absent only the pid is recorded.
C5_SessionStart ==
    [][(phase = "sessionstart" /\ phase' = "run" /\ registered) =>
        /\ pid' = SessionPid
        /\ cov' = cov /\ failed' = failed /\ reports' = reports
        /\ IF slaveinput = << >>
           THEN cov_controller' = cov_controller /\ engines' = engines
           ELSE /\ cov_controller'.cls = "DistSlave"
                /\ cov_controller'.state = "STARTED"
                /\ cov_controller'.nodeid =
                       IF <<"slaveid", "gw0">> \in slaveinput[1]
                       THEN <<"gw0">> ELSE <<SessionNodeid>>
                /\ cov_controller'.cov = Len(engines) + 1
                /\ engines'[cov_controller'.cov].state = "measuring"]_vars

C5_Witness ==
    /\ phase = "run"
    /\ ctor_start
    /\ cov_controller.cls = "DistSlave"
    /\ cov_controller.nodeid = <<"gw0">>
    /\ calls[1] = <<"start", "DistMaster">>

\* a worker process: the scheduler supplied slaveinput
Worker == registered /\ slaveinput # << >>

\* C6: in a worker process the session end stops and saves the DistSlave's
\* measurement and no hook ever produces a report there.
C6_WorkerNeverReports ==
    Worker =>
        /\ reports = << >>
        /\ phase \in {"run", "summary", "done"} =>
               /\ cov_controller.cls = "DistSlave"
               /\ engines[cov_controller.cov].owner = "DistSlave"
        /\ phase \in {"summary", "done"} =>
               /\ cov_controller.state = "STOPPED"
               /\ engines[cov_controller.cov].state = "stopped"

C6_Witness ==
    /\ Worker
    /\ phase = "done"
    /\ SummaryCalled
    /\ ctor_start
    /\ ~(FailedRun /\ options.no_cov_on_fail)

\* the workers that reported a data file, as the scheduler saw them
ReportedWorkers == {w \in Workers : nodes[w] = "reported"}

\* C7: on a master (a DistMaster controller), whatever subset of the workers
\* errored or never reported, no worker notification raises and summary()
\* combines exactly the data files of the workers that reported
\* successfully into the one session report.
C7_MasterCombinesReported ==
    cov_controller.cls = "DistMaster" =>
        /\ phase = "run" => raised = NoException /\ ~internalerror
        /\ cov_controller.data_files = ReportedWorkers
        /\ (phase = "done" /\ ~(FailedRun /\ options.no_cov_on_fail)) =>
               /\ Len(reports) = 1
               /\ reports[1].combined = ReportedWorkers
               /\ raised.type # "AttributeError"

C7_Witness ==
    /\ cov_controller.cls = "DistMaster"
    /\ phase = "done"
    /\ Len(reports) = 1
    /\ nodes[1] = "errored"
    /\ nodes[2] = "reported"
    /\ reports[1].combined = {2}

ManualHandles == {h \in 1..Len(engines) : engines[h].owner = "manual"}

\* C8: while a test item runs in a process other than the one captured at
\* session start, cov is a fresh engine that measures and was not finalized;
\* once its teardown has run cov is None and that engine has been finalized
\* exactly once; only manually started engines are ever finalized; a test in
\* the session's own process starts nothing.
C8_ManualMeasurement ==
    (registered /\ phase \in {"run", "summary", "done"}) =>
        /\ \A h \in 1..Len(engines) :
               engines[h].finishes > 0 => h \in ManualHandles
        /\ (testpid # 0 /\ testpid # pid) =>
               /\ cov = Len(engines)
               /\ cov \in ManualHandles
               /\ engines[cov].state = "measuring"
               /\ engines[cov].finishes = 0
               /\ \A h \in ManualHandles \ {cov} : engines[h].finishes = 1
        /\ (testpid = 0 \/ testpid = pid) =>
               /\ cov = NoneCov
               /\ \A h \in ManualHandles :
                      /\ engines[h].finishes = 1
                      /\ engines[h].state = "stopped"
        /\ Cardinality(ManualHandles) <= tests

C8_Witness ==
    /\ registered
    /\ phase = "run"
    /\ testpid = 0
    /\ tests = 2
    /\ Cardinality(ManualHandles) = 2
    /\ cov = NoneCov

\* C9: with cov_min left at its default (None) no CoverageError is raised,
\* whatever percentage summary() returns, and the report is produced; under
\* Python 2 the terminal summary raises nothing at all.
C9_NoThresholdNoFailure ==
    (registered /\ options.cov_min = << >>) =>
        /\ raised.type # "CoverageError"
        /\ (phase = "done" /\ py = 2) => raised = NoException
        /\ (/\ phase = "done"
            /\ cov_controller # NoController
            /\ slaveinput = << >>
            /\ ~(FailedRun /\ options.no_cov_on_fail)) =>
               /\ Len(reports) = 1
               /\ reports[1].total \in PctSamples

C9_Witness ==
    /\ registered
    /\ options.cov_min = << >>
    /\ phase = "done"
    /\ py = 2
    /\ Len(reports) = 1
    /\ reports[1].total = 0

\* C10 as stated: the accessor returns None exactly when the plugin is
\* inactive (not registered as '_cov').
C10_Original ==
    lastCov # NotCalled => ((lastCov[1] = NoneCov) <=> ~registered)

\* C10 amended: the accessor returns the engine handle of the active
\* controller whenever the plugin is registered and holds a controller, and
\* None when the plugin is not registered or holds no controller; it raises
\* nothing and changes no plugin or controller state.
C10_Amended ==
    /\ [](lastCov # NotCalled =>
            /\ (lastCov[1] = NoneCov) <=>
                   (~registered \/ cov_controller = NoController)
            /\ lastCov[1] # NoneCov =>
                   /\ lastCov[1] = cov_controller.cov
                   /\ engines[lastCov[1]].owner = cov_controller.cls
                   /\ phase = "run" =>
                          engines[lastCov[1]].state = "measuring")
    /\ [][lastCov' # lastCov =>
            UNCHANGED <<registered, pid, cov, cov_controller, failed,
                        engines, calls, reports, raised, internalerror>>]_vars

C10_Witness ==
    /\ lastCov # NotCalled
    /\ lastCov[1] # NoneCov
    /\ cov # NoneCov
    /\ cov_controller.cls = "Central"

\* the master's controller after the notifications of seq, delivered in the
\* order of seq to the controller c
RECURSIVE AfterNotifications(_, _)
AfterNotifications(c, seq) ==
    IF seq = << >> THEN c
    ELSE AfterNotifications(NodeDown(c, seq[1][1], seq[1][2]), Tail(seq))

\* every order in which the notifications of seq can be delivered
Interleavings(seq) ==
    LET n == Len(seq)
        perms == {f \in [1..n -> 1..n] :
                     \A i, j \in 1..n : f[i] = f[j] => i = j}
    IN  {[i \in 1..n |-> seq[f[i]]] : f \in perms}

UnfinishedControllers ==
    {h \in 1..Len(engines) :
        engines[h].owner # "manual" /\ engines[h].state # "stopped"}

\* C12: start() is never invoked while a controller the plugin started
\* before is unfinished, so at most one started controller is unfinished at
\* any time, and once pytest_sessionfinish has run every started controller
\* has been finished, also one chosen at construction in a process that
\* turned out to be a worker.
C12_Lifecycle ==
    /\ Cardinality(UnfinishedControllers) <= 1
    /\ phase \in {"summary", "done"} => UnfinishedControllers = {}

SummaryCalls == {i \in 1..Len(calls) : calls[i][1] = "summary"}

\* C13: summary() is invoked at most once and only directly after finish()
\* on the same controller; whatever the terminal summary raises, it raises
\* after summary() was invoked; a CoverageError is raised only at the end
\* of a session whose report was produced.
C13_OutcomeAfterReport ==
    /\ Cardinality(SummaryCalls) <= 1
    /\ \A i \in SummaryCalls :
           /\ i > 1
           /\ calls[i - 1] = <<"finish", calls[i][2]>>
           /\ phase = "done"
    /\ (phase = "done" /\ raised # NoException) => SummaryCalls # {}
    /\ raised.type = "CoverageError" =>
           /\ phase = "done"
           /\ Len(reports) = 1
           /\ reports[1].total < options.cov_min[1] * 1000

C13_Witness ==
    /\ phase = "done"
    /\ raised.type = "CoverageError"
    /\ calls = << <<"start", "DistMaster">>, <<"finish", "DistMaster">>,
                  <<"summary", "DistMaster">> >>

\* C14: a test item is given a manual measurement at its setup exactly when
\* the pid observed there differs from the pid captured at session start;
\* setup and teardown of a test in the session's own process change neither
\* cov, the controller, the failed flag nor any engine.
C14_SecondaryProcessOnly ==
    [][(phase = "run" /\ registered /\ testpid' # testpid) =>
        /\ pid = SessionPid
        /\ testpid = 0 =>
               /\ (testpid' # SessionPid) <=> (engines' # engines)
               /\ (testpid' # SessionPid) <=> (cov' # NoneCov)
               /\ testpid' # SessionPid =>
                      /\ engines' = Append(engines, engines'[cov'])
                      /\ engines'[cov'].owner = "manual"
        /\ (testpid = SessionPid \/ testpid' = SessionPid) =>
               /\ cov = NoneCov
               /\ UNCHANGED <<cov, cov_controller, failed, engines, calls,
                              reports, pid>>
        /\ UNCHANGED <<cov_controller, failed, pid>>]_vars

C14_Witness ==
    /\ phase = "run"
    /\ registered
    /\ testpid = SessionPid
    /\ tests = 2
    /\ Cardinality(ManualHandles) = 1
    /\ cov = NoneCov
    /\ cov_controller.cls = "Central"

\* neither configure_node nor testnodedown was delivered so far
NoWorkerCallbacks == arrivals = << >> /\ \A w \in Workers : nodes[w] = "new"

\* C15: in a process that is not a worker and holds a controller, as long
\* as no worker callback was delivered nothing raises, session finish and
\* terminal summary can be delivered without one, the controller is
\* finished at session finish, and the terminal summary produces the single
\* report (nothing combined) behind the same suppression and threshold
\* gates as a central run.
C15_NoWorkerCallbacks ==
    (/\ registered
     /\ slaveinput = << >>
     /\ cov_controller # NoController
     /\ NoWorkerCallbacks) =>
        /\ ~internalerror
        /\ raised.type # "AttributeError"
        /\ (phase = "run" /\ testpid = 0) =>
               /\ cov_controller.state = "STARTED"
               /\ ENABLED (\E status \in {0, 1} : pytest_sessionfinish(status))
        /\ phase = "summary" =>
               /\ cov_controller.state = "STOPPED"
               /\ ENABLED (\E p \in PctSamples : pytest_terminal_summary(p))
        /\ phase = "done" =>
               LET c == cov_controller.cls IN
               IF FailedRun /\ options.no_cov_on_fail
               THEN /\ calls = << <<"start", c>>, <<"finish", c>> >>
                    /\ reports = << >>
                    /\ raised = NoException
               ELSE /\ calls = << <<"start", c>>, <<"finish", c>>,
                                  <<"summary", c>> >>
                    /\ Len(reports) = 1
                    /\ reports[1].combined = {}
                    /\ (raised.type = "CoverageError") <=>
                           /\ options.cov_min # << >>
                           /\ reports[1].total < options.cov_min[1] * 1000

C15_Witness ==
    /\ registered
    /\ NoWorkerCallbacks
    /\ phase = "done"
    /\ cov_controller.cls = "DistMaster"
    /\ cov_controller.state = "REPORTED"
    /\ raised.type = "CoverageError"

\* C16: at most one CovPlugin is ever registered as '_cov', and none when
\* no source path was given; the plugin pytest_configure registers is
\* constructed with start false and starts no controller at construction.
C16_SingleRegistration ==
    /\ [](/\ plugins <= 1
          /\ registered <=> plugins = 1
          /\ options.cov_source = << >> => ~registered /\ plugins = 0
          /\ phase = "boot" => ~registered)
    /\ [][(phase = "configure" /\ plugins' # plugins) =>
            /\ ~registered /\ registered'
            /\ ctor_start' = FALSE
            /\ cov_controller' = NoController
            /\ engines' = << >>
            /\ calls' = << >>]_vars

C16_Witness ==
    /\ phase = "sessionstart"
    /\ registered
    /\ plugins = 1
    /\ ~ctor_start
    /\ options.cov_source = <<"pkg">>
    /\ cov_controller = NoController

\* C17: in a process that is not a worker and whose plugin was constructed
\* with start false, no controller exists and every hook completes without
\* raising, invokes no controller or engine operation and produces no
\* report.
C17_SafeWithoutController ==
    (registered /\ ~ctor_start /\ slaveinput = << >>) =>
        /\ cov_controller = NoController
        /\ raised = NoException
        /\ ~internalerror
        /\ calls = << >>
        /\ \A h \in 1..Len(engines) : engines[h].owner = "manual"
        /\ reports = << >>

====
